---- MODULE Spec2Model ----
(***************************************************************************)
(* Day 4 of adventofcode2021 (rust/adventofcode/src/day04.rs): the bingo   *)
(* cell and card, the card parser, the game parser's fold over the chunks  *)
(* of the input, and the two traversals of the game.                       *)
(*                                                                         *)
(* Text is a sequence of characters; a character is a one-character        *)
(* string, except UnicodeDigit, which stands for one non-ASCII decimal     *)
(* digit (the regex class \d matches it, u64 parsing rejects it).          *)
(***************************************************************************)
EXTENDS Integers, Sequences, FiniteSets, TLC

VARIABLES
    written,    \* what the input was written from: its head, blocks, trailer
    input,      \* the text given to BingoGame::from_str
    pos,        \* number of chunks the fold has consumed
    state,      \* BingoGameParserState, the fold's accumulator
    parsed,     \* the Result of BingoGame::from_str, or NoResult
    game,       \* the BingoGame being traversed (calls, cards)
    pc,         \* which function is running
    ci,         \* position of the outer loop in game.calls (the next call)
    ki,         \* position of the inner loop in game.cards (the next card)
    win_count,  \* find_last_winner's local
    last_win,   \* find_last_winner's local
    result,     \* the value returned by the traversal, or NoResult
    answer,     \* the Result of part_one or part_two, or NoResult
    ops,        \* number of operations invoked on the game since it was parsed
    arg,        \* the argument of the last mark_value call
    who,        \* the index of the card of the last mark_value call
    prev,       \* that card as it was when the call was made
    ret         \* the value the last mark_value call returned

vars == <<written, input, pos, state, parsed, game, pc, ci, ki, win_count, last_win,
          result, answer, ops, arg, who, prev, ret>>

NoResult == [tag |-> "NoResult"]

----------------------------------------------------------------------------
(* Characters and the std string functions the parsers call.               *)

NL == "\n"
CR == "\r"
SP == " "
COMMA == ","
PLUS == "+"
UnicodeDigit == "U+0663"

AsciiDigit == {"0", "1", "2", "3", "4", "5", "6", "7", "8", "9"}

DigitValue(c) ==
    CASE c = "0" -> 0 [] c = "1" -> 1 [] c = "2" -> 2 [] c = "3" -> 3
      [] c = "4" -> 4 [] c = "5" -> 5 [] c = "6" -> 6 [] c = "7" -> 7
      [] c = "8" -> 8 [] c = "9" -> 9

IsWhitespace(c) == c \in {SP, NL, CR, "\t"}

\* The least element of a non-empty set of positions.
Least(S) == CHOOSE a \in S : \A b \in S : a <= b

\* str::split("\n\n"): the pieces between non-overlapping matches, found left
\* to right; always at least one piece.
RECURSIVE SplitBlankFrom(_, _)
SplitBlankFrom(s, start) ==
    LET at == {i \in start..(Len(s) - 1) : s[i] = NL /\ s[i + 1] = NL}
    IN  IF at = {} THEN <<SubSeq(s, start, Len(s))>>
        ELSE <<SubSeq(s, start, Least(at) - 1)>> \o SplitBlankFrom(s, Least(at) + 2)

SplitBlank(s) == SplitBlankFrom(s, 1)

\* str::split(','): the pieces before, between and after the commas; always
\* at least one piece.
SplitComma(s) ==
    LET ends == {i \in 1..Len(s) : s[i] = COMMA} \cup {0, Len(s) + 1}
        Kth(k) == CHOOSE e \in ends : Cardinality({d \in ends : d < e}) = k - 1
    IN  [k \in 1..(Cardinality(ends) - 1) |-> SubSeq(s, Kth(k) + 1, Kth(k + 1) - 1)]

\* str::lines(): lines end at "\n" or "\r\n"; the last line needs no ending,
\* and no empty line follows a final line ending.
StripCR(l) == IF Len(l) > 0 /\ l[Len(l)] = CR THEN SubSeq(l, 1, Len(l) - 1) ELSE l

RECURSIVE LinesFrom(_, _)
LinesFrom(s, start) ==
    LET at == {i \in start..Len(s) : s[i] = NL}
    IN  IF at = {}
        THEN IF start > Len(s) THEN <<>> ELSE <<SubSeq(s, start, Len(s))>>
        ELSE <<StripCR(SubSeq(s, start, Least(at) - 1))>> \o LinesFrom(s, Least(at) + 1)

Lines(s) == LinesFrom(s, 1)

\* str::trim(): whitespace removed at both ends.
RECURSIVE TrimStart(_)
TrimStart(s) ==
    IF Len(s) > 0 /\ IsWhitespace(s[1]) THEN TrimStart(Tail(s)) ELSE s

RECURSIVE TrimEnd(_)
TrimEnd(s) ==
    IF Len(s) > 0 /\ IsWhitespace(s[Len(s)])
    THEN TrimEnd(SubSeq(s, 1, Len(s) - 1))
    ELSE s

Trim(s) == TrimEnd(TrimStart(s))

\* str::parse::<u64>(): an optional "+", then one or more ASCII digits.  The
\* texts of this model are too short to overflow 64 bits.
Ok(v) == [ok |-> TRUE, val |-> v, err |-> <<>>]
Err(e) == [ok |-> FALSE, val |-> 0, err |-> e]

RECURSIVE DigitsValue(_, _)
DigitsValue(s, acc) ==
    IF s = <<>> THEN acc ELSE DigitsValue(Tail(s), 10 * acc + DigitValue(s[1]))

ParseU64(s) ==
    LET d == IF Len(s) > 0 /\ s[1] = PLUS THEN Tail(s) ELSE s
    IN  IF s = <<>>
        THEN Err(<<[msg |-> "cannot parse integer from empty string", tok |-> s]>>)
        ELSE IF d = <<>> \/ \E i \in 1..Len(d) : d[i] \notin AsciiDigit
             THEN Err(<<[msg |-> "invalid digit found in string", tok |-> s]>>)
             ELSE Ok(DigitsValue(d, 0))

\* anyhow's context(): the new message in front of the chain.
WithContext(e, m, t) == <<[msg |-> m, tok |-> t]>> \o e

----------------------------------------------------------------------------
(* BingoCell, BingoCardStatus, BingoCard.                                  *)

Marked == "Marked"
Unmarked == "Unmarked"

BingoCell(v) == [value |-> v, status |-> Unmarked]

\* mark turning a Marked cell back to Unmarked.
MutMarkToggle(cell) ==
    [cell EXCEPT !.status = IF @ = Marked THEN Unmarked ELSE Marked]

\* BingoCell::mark
mark(cell) == [cell EXCEPT !.status = Marked]

\* A cell parser that reads a field of blanks as 0.
MutCellBlankZero(s) ==
    LET r == ParseU64(Trim(s))
    IN  IF Trim(s) = <<>> THEN Ok(BingoCell(0))
        ELSE IF r.ok THEN Ok(BingoCell(r.val)) ELSE Err(r.err)

\* impl FromStr for BingoCell: s.trim().parse()?
BingoCell_from_str(s) ==
    LET r == ParseU64(Trim(s))
    IN  IF r.ok THEN Ok(BingoCell(r.val)) ELSE Err(r.err)

Unsolved == [tag |-> "Unsolved"]
Solved(c, s) == [tag |-> "Solved", call |-> c, sum |-> s]

BingoCard(cells) == [cells |-> cells, status |-> Unsolved]

\* BingoCard::unmarked_sum: the sum, over the rows, of the sum of the values
\* of the row's Unmarked cells.
RECURSIVE RowUnmarkedSum(_)
RowUnmarkedSum(row) ==
    IF row = <<>> THEN 0
    ELSE (IF row[1].status = Unmarked THEN row[1].value ELSE 0)
         + RowUnmarkedSum(Tail(row))

RECURSIVE RowsUnmarkedSum(_)
RowsUnmarkedSum(rows) ==
    IF rows = <<>> THEN 0
    ELSE RowUnmarkedSum(rows[1]) + RowsUnmarkedSum(Tail(rows))

\* unmarked_sum over the first row only.
MutUnmarkedSumFirstRow(card) ==
    IF card.cells = <<>> THEN 0 ELSE RowUnmarkedSum(card.cells[1])

\* unmarked_sum over all the cells, Marked or not.
RECURSIVE MutUnmarkedSumAll(_)
MutUnmarkedSumAll(card) ==
    IF card.cells = <<>> THEN 0
    ELSE RowUnmarkedSum([i \in 1..Len(card.cells[1]) |-> BingoCell(card.cells[1][i].value)])
         + MutUnmarkedSumAll([card EXCEPT !.cells = Tail(@)])

unmarked_sum(card) == RowsUnmarkedSum(card.cells)

\* The scan stopping at the last cell of that value instead of the first.
MutFirstMatchLast(cells, value) ==
    LET ys == {y \in 1..Len(cells) :
                  \E x \in 1..Len(cells[y]) : cells[y][x].value = value}
    IN  IF ys = {} THEN <<>>
        ELSE LET y == CHOOSE a \in ys : \A b \in ys : b <= a
                 xs == {x \in 1..Len(cells[y]) : cells[y][x].value = value}
             IN  <<CHOOSE a \in xs : \A b \in xs : b <= a, y>>

\* The scan of mark_value: the first row, in order, that holds a cell of that
\* value, and the first such cell of that row; <<x, y>>, or <<>> for None.
FirstMatch(cells, value) ==
    LET ys == {y \in 1..Len(cells) :
                  \E x \in 1..Len(cells[y]) : cells[y][x].value = value}
    IN  IF ys = {} THEN <<>>
        ELSE LET y == Least(ys)
                 xs == {x \in 1..Len(cells[y]) : cells[y][x].value = value}
             IN  <<Least(xs), y>>

\* The completion test looking at the column of the marked cell only.
MutLineCompleteColumn(cells, x, y) ==
    \A r \in 1..Len(cells) : cells[r][x].status = Marked

\* The completion test looking at the row of the marked cell only.
MutLineCompleteRow(cells, x, y) ==
    \A i \in 1..Len(cells[y]) : cells[y][i].status = Marked

\* The completion test asking for the row and the column of the marked cell.
MutLineCompleteBoth(cells, x, y) ==
    /\ \A i \in 1..Len(cells[y]) : cells[y][i].status = Marked
    /\ \A r \in 1..Len(cells) : cells[r][x].status = Marked

\* The completion test of mark_value for the marked cell (x, y): its row is
\* all Marked, or the cell at x of every row is Marked.
LineComplete(cells, x, y) ==
    \/ \A i \in 1..Len(cells[y]) : cells[y][i].status = Marked
    \/ \A r \in 1..Len(cells) : cells[r][x].status = Marked

\* mark_value with the sum taken before the matched cell is marked.
MutMarkValueSumBefore(card, value) ==
    LET m == FirstMatch(card.cells, value)
    IN  IF m = <<>> THEN card
        ELSE LET cells == [card.cells EXCEPT ![m[2]][m[1]] = mark(@)]
                 after == [card EXCEPT !.cells = cells]
             IN  IF LineComplete(cells, m[1], m[2])
                 THEN [after EXCEPT !.status = Solved(value, unmarked_sum(card))]
                 ELSE after

\* mark_value returning to Unsolved when no cell matches.
MutMarkValueNoMatch(card, value) ==
    LET m == FirstMatch(card.cells, value)
    IN  IF m = <<>> THEN [card EXCEPT !.status = Unsolved]
        ELSE LET cells == [card.cells EXCEPT ![m[2]][m[1]] = mark(@)]
                 after == [card EXCEPT !.cells = cells]
             IN  IF LineComplete(cells, m[1], m[2])
                 THEN [after EXCEPT !.status = Solved(value, unmarked_sum(after))]
                 ELSE after

\* mark_value storing Unsolved when the matched cell completes no line.
MutMarkValueRecompute(card, value) ==
    LET m == FirstMatch(card.cells, value)
    IN  IF m = <<>> THEN card
        ELSE LET cells == [card.cells EXCEPT ![m[2]][m[1]] = mark(@)]
                 after == [card EXCEPT !.cells = cells]
             IN  IF LineComplete(cells, m[1], m[2])
                 THEN [after EXCEPT !.status = Solved(value, unmarked_sum(after))]
                 ELSE [after EXCEPT !.status = Unsolved]

\* mark_value marking every cell of the value, not the first only.
MutMarkValueAll(card, value) ==
    LET m == FirstMatch(card.cells, value)
    IN  IF m = <<>> THEN card
        ELSE LET cells == [y \in 1..Len(card.cells) |->
                              [x \in 1..Len(card.cells[y]) |->
                                  IF card.cells[y][x].value = value
                                  THEN mark(card.cells[y][x]) ELSE card.cells[y][x]]]
                 after == [card EXCEPT !.cells = cells]
             IN  IF LineComplete(cells, m[1], m[2])
                 THEN [after EXCEPT !.status = Solved(value, unmarked_sum(after))]
                 ELSE after

\* BingoCard::mark_value: the card after the call; the call returns its status.
mark_value(card, value) ==
    LET m == FirstMatch(card.cells, value)
    IN  IF m = <<>> THEN card
        ELSE LET cells == [card.cells EXCEPT ![m[2]][m[1]] = mark(@)]
                 after == [card EXCEPT !.cells = cells]
             IN  IF LineComplete(cells, m[1], m[2])
                 THEN [after EXCEPT !.status = Solved(value, unmarked_sum(after))]
                 ELSE after

----------------------------------------------------------------------------
(* ROW_REGEX and impl FromStr for BingoCard.                               *)

RowFields == 5
FieldWidth == 2
TakeLines == 5

\* [ \d]: a blank or a decimal digit; \d is Unicode-aware.
FieldClass == AsciiDigit \cup {UnicodeDigit, SP}

\* ROW_REGEX.captures(l): the whole line is RowFields fields of FieldWidth
\* characters of the class, with one blank between fields.
RowMatches(l) ==
    /\ Len(l) = RowFields * (FieldWidth + 1) - 1
    /\ \A i \in 1..Len(l) :
          IF i % (FieldWidth + 1) = 0 THEN l[i] = SP ELSE l[i] \in FieldClass

Capture(l, k) ==
    SubSeq(l, (k - 1) * (FieldWidth + 1) + 1, (k - 1) * (FieldWidth + 1) + FieldWidth)

\* The captures of one line parsed as cells and collected: the cells, or the
\* error of the first capture that fails.
RECURSIVE CollectCells(_, _, _)
CollectCells(l, k, acc) ==
    IF k > RowFields THEN Ok(acc)
    ELSE LET c == BingoCell_from_str(Capture(l, k))
         IN  IF c.ok THEN CollectCells(l, k + 1, Append(acc, c.val))
             ELSE Err(c.err)

\* The rows collected from the first five lines that match, whatever the
\* lines between them.
RECURSIVE MutCollectRowsFilterFirst(_, _, _)
MutCollectRowsFilterFirst(ls, i, acc) ==
    IF i > Len(ls) \/ Len(acc) >= TakeLines THEN Ok(acc)
    ELSE IF ~RowMatches(ls[i]) THEN MutCollectRowsFilterFirst(ls, i + 1, acc)
         ELSE LET r == CollectCells(ls[i], 1, <<>>)
              IN  IF r.ok THEN MutCollectRowsFilterFirst(ls, i + 1, Append(acc, r.val))
                  ELSE Err(r.err)

\* lines().take(5).filter_map(..).collect(): of the first five lines, those
\* that do not match are dropped, the others become rows; the first failing
\* row fails the card.
RECURSIVE CollectRows(_, _, _)
CollectRows(ls, i, acc) ==
    IF i > Len(ls) \/ i > TakeLines THEN Ok(acc)
    ELSE IF ~RowMatches(ls[i]) THEN CollectRows(ls, i + 1, acc)
         ELSE LET r == CollectCells(ls[i], 1, <<>>)
              IN  IF r.ok THEN CollectRows(ls, i + 1, Append(acc, r.val))
                  ELSE Err(r.err)

BingoCard_from_str(s) ==
    LET rows == CollectRows(Lines(s), 1, <<>>)
    IN  IF rows.ok THEN Ok(BingoCard(rows.val)) ELSE Err(rows.err)

----------------------------------------------------------------------------
(* BingoGame, BingoGameParserState and the two conversions.                *)

BingoGame(calls, cards) == [calls |-> calls, cards |-> cards]

WaitingForCalls == [tag |-> "WaitingForCalls"]
Calls(calls) == [tag |-> "Calls", calls |-> calls]
Boards(calls, cards) == [tag |-> "Boards", calls |-> calls, cards |-> cards]
Error(e) == [tag |-> "Error", err |-> e]

\* The calls of the first chunk: every piece between commas parsed and
\* collected; the first failure, with its context, fails them all.
CollectCalls(toks) ==
    LET r == [i \in 1..Len(toks) |-> ParseU64(toks[i])]
        bad == {i \in 1..Len(toks) : ~r[i].ok}
    IN  IF bad = {} THEN Ok([i \in 1..Len(toks) |-> r[i].val])
        ELSE Err(WithContext(r[Least(bad)].err, "Invalid call value", toks[Least(bad)]))

\* The fold with an Error replaced by the error of a later chunk.
MutFoldLaterError(st, chunk) ==
    LET card == BingoCard_from_str(chunk)
        calls == CollectCalls(SplitComma(chunk))
    IN  CASE st.tag = "WaitingForCalls" ->
               IF calls.ok THEN Calls(calls.val) ELSE Error(calls.err)
          [] st.tag = "Calls" ->
               IF card.ok THEN Boards(st.calls, <<card.val>>) ELSE Error(card.err)
          [] st.tag = "Boards" ->
               IF card.ok THEN Boards(st.calls, Append(st.cards, card.val))
               ELSE Error(card.err)
          [] OTHER ->
               IF card.ok THEN st ELSE Error(card.err)

\* The fold with a new card put in front of the cards.
MutFoldPrepend(st, chunk) ==
    LET card == BingoCard_from_str(chunk)
        calls == CollectCalls(SplitComma(chunk))
    IN  CASE st.tag = "WaitingForCalls" ->
               IF calls.ok THEN Calls(calls.val) ELSE Error(calls.err)
          [] st.tag = "Calls" ->
               IF card.ok THEN Boards(st.calls, <<card.val>>) ELSE Error(card.err)
          [] st.tag = "Boards" ->
               IF card.ok THEN Boards(st.calls, <<card.val>> \o st.cards)
               ELSE Error(card.err)
          [] OTHER -> st

\* The closure of the fold in BingoGame::from_str.
Fold(st, chunk) ==
    CASE st.tag = "WaitingForCalls" ->
           LET calls == CollectCalls(SplitComma(chunk))
           IN  IF calls.ok THEN Calls(calls.val) ELSE Error(calls.err)
      [] st.tag = "Calls" ->
           LET card == BingoCard_from_str(chunk)
           IN  IF card.ok THEN Boards(st.calls, <<card.val>>) ELSE Error(card.err)
      [] st.tag = "Boards" ->
           LET card == BingoCard_from_str(chunk)
           IN  IF card.ok THEN Boards(st.calls, Append(st.cards, card.val))
               ELSE Error(card.err)
      [] OTHER -> st

\* The conversion with the Calls state accepted as a game without cards.
MutTryFromCalls(st) ==
    CASE st.tag \in {"Boards", "Calls"} ->
           Ok(BingoGame(st.calls, IF st.tag = "Boards" THEN st.cards ELSE <<>>))
      [] st.tag = "Error" -> Err(WithContext(st.err, "Unable to parse game", <<>>))
      [] OTHER -> Err(<<[msg |-> "Unable to parse game: Unknown error", tok |-> <<>>]>>)

\* impl TryFrom<BingoGameParserState> for BingoGame
try_from(st) ==
    CASE st.tag = "Boards" -> Ok(BingoGame(st.calls, st.cards))
      [] st.tag = "Error" -> Err(WithContext(st.err, "Unable to parse game", <<>>))
      [] OTHER -> Err(<<[msg |-> "Unable to parse game: Unknown error", tok |-> <<>>]>>)

----------------------------------------------------------------------------
(* The traversals of BingoGame, one iteration of the inner loop at a time. *)

None == [tag |-> "None"]
Some(v) == [tag |-> "Some", val |-> v]

\* The loop position after the iteration at call c, card k.
NextCall(g, c, k) == IF k < Len(g.cards) THEN c ELSE c + 1
NextCard(g, c, k) == IF k < Len(g.cards) THEN k + 1 ELSE 1

\* find_winning_call going through the cards from the last to the first.
MutFwcIterReverse(g, c, k) ==
    LET j == Len(g.cards) + 1 - k
        card == mark_value(g.cards[j], g.calls[c])
    IN  [game |-> [g EXCEPT !.cards[j] = card],
         called |-> TRUE,
         ret |-> card.status,
         returns |-> card.status.tag = "Solved",
         value |-> card.status]

\* find_winning_call giving the calls to the first card only.
MutFwcIterFirstCard(g, c, k) ==
    LET card == IF k = 1 THEN mark_value(g.cards[k], g.calls[c]) ELSE g.cards[k]
    IN  [game |-> [g EXCEPT !.cards[k] = card],
         called |-> k = 1,
         ret |-> card.status,
         returns |-> card.status.tag = "Solved",
         value |-> card.status]

\* find_winning_call returning, when a card is Solved, the status of the first
\* card of the game.
MutFwcIterFirstStatus(g, c, k) ==
    LET card == mark_value(g.cards[k], g.calls[c])
        after == [g EXCEPT !.cards[k] = card]
    IN  [game |-> after,
         called |-> TRUE,
         ret |-> card.status,
         returns |-> card.status.tag = "Solved",
         value |-> after.cards[1].status]

\* find_winning_call, the iteration for call c and card k: the card is given
\* the call, and a Solved status returned by mark_value is returned at once.
FwcIter(g, c, k) ==
    LET card == mark_value(g.cards[k], g.calls[c])
    IN  [game |-> [g EXCEPT !.cards[k] = card],
         called |-> TRUE,
         ret |-> card.status,
         returns |-> card.status.tag = "Solved",
         value |-> card.status]

\* find_last_winner keeping the first win in last_win.
MutFlwIterFirstWin(g, c, k, wc, lw) ==
    IF g.cards[k].status = Unsolved
    THEN LET card == mark_value(g.cards[k], g.calls[c])
             won == card.status.tag = "Solved"
             win == IF won /\ lw = None THEN Some(card.status) ELSE lw
         IN  [game |-> [g EXCEPT !.cards[k] = card],
              called |-> TRUE,
              ret |-> card.status,
              win_count |-> IF won THEN wc + 1 ELSE wc,
              last_win |-> win,
              returns |-> won /\ wc + 1 = Len(g.cards),
              value |-> win]
    ELSE [game |-> g, called |-> FALSE, ret |-> Unsolved,
          win_count |-> wc, last_win |-> lw, returns |-> FALSE, value |-> lw]

\* find_last_winner giving the call to every card, Solved or not.
MutFlwIterNoSkip(g, c, k, wc, lw) ==
    LET card == mark_value(g.cards[k], g.calls[c])
        won == card.status.tag = "Solved" /\ g.cards[k].status = Unsolved
    IN  [game |-> [g EXCEPT !.cards[k] = card],
         called |-> TRUE,
         ret |-> card.status,
         win_count |-> IF won THEN wc + 1 ELSE wc,
         last_win |-> IF won THEN Some(card.status) ELSE lw,
         returns |-> won /\ wc + 1 = Len(g.cards),
         value |-> Some(card.status)]

\* find_last_winner without the return when the last card wins.
MutFlwIterNoEarlyReturn(g, c, k, wc, lw) ==
    IF g.cards[k].status = Unsolved
    THEN LET card == mark_value(g.cards[k], g.calls[c])
             won == card.status.tag = "Solved"
         IN  [game |-> [g EXCEPT !.cards[k] = card],
              called |-> TRUE,
              ret |-> card.status,
              win_count |-> IF won THEN wc + 1 ELSE wc,
              last_win |-> IF won THEN Some(card.status) ELSE lw,
              returns |-> FALSE,
              value |-> lw]
    ELSE [game |-> g, called |-> FALSE, ret |-> Unsolved,
          win_count |-> wc, last_win |-> lw, returns |-> FALSE, value |-> lw]

\* find_last_winner counting the wins without keeping them in last_win.
MutFlwIterCountOnly(g, c, k, wc, lw) ==
    IF g.cards[k].status = Unsolved
    THEN LET card == mark_value(g.cards[k], g.calls[c])
             won == card.status.tag = "Solved"
         IN  [game |-> [g EXCEPT !.cards[k] = card],
              called |-> TRUE,
              ret |-> card.status,
              win_count |-> IF won THEN wc + 1 ELSE wc,
              last_win |-> lw,
              returns |-> won /\ wc + 1 = Len(g.cards),
              value |-> lw]
    ELSE [game |-> g, called |-> FALSE, ret |-> Unsolved,
          win_count |-> wc, last_win |-> lw, returns |-> FALSE, value |-> lw]

\* find_last_winner counting a card that is skipped as a win.
MutFlwIterCountSkipped(g, c, k, wc, lw) ==
    IF g.cards[k].status = Unsolved
    THEN LET card == mark_value(g.cards[k], g.calls[c])
             won == card.status.tag = "Solved"
         IN  [game |-> [g EXCEPT !.cards[k] = card],
              called |-> TRUE,
              ret |-> card.status,
              win_count |-> IF won THEN wc + 1 ELSE wc,
              last_win |-> IF won THEN Some(card.status) ELSE lw,
              returns |-> won /\ wc + 1 = Len(g.cards),
              value |-> Some(card.status)]
    ELSE [game |-> g, called |-> FALSE, ret |-> Unsolved,
          win_count |-> wc + 1, last_win |-> lw, returns |-> FALSE, value |-> lw]

\* find_last_winner, the iteration for call c and card k, with the locals
\* win_count (wc) and last_win (lw).  Only an Unsolved card is given the call.
FlwIter(g, c, k, wc, lw) ==
    IF g.cards[k].status = Unsolved
    THEN LET card == mark_value(g.cards[k], g.calls[c])
             won == card.status.tag = "Solved"
         IN  [game |-> [g EXCEPT !.cards[k] = card],
              called |-> TRUE,
              ret |-> card.status,
              win_count |-> IF won THEN wc + 1 ELSE wc,
              last_win |-> IF won THEN Some(card.status) ELSE lw,
              returns |-> won /\ wc + 1 = Len(g.cards),
              value |-> Some(card.status)]
    ELSE [game |-> g, called |-> FALSE, ret |-> Unsolved,
          win_count |-> wc, last_win |-> lw, returns |-> FALSE, value |-> lw]

----------------------------------------------------------------------------
(* The inputs: texts written the way the puzzle input is written.          *)

DigitChar(n) ==
    CASE n = 0 -> "0" [] n = 1 -> "1" [] n = 2 -> "2" [] n = 3 -> "3"
      [] n = 4 -> "4" [] n = 5 -> "5" [] n = 6 -> "6" [] n = 7 -> "7"
      [] n = 8 -> "8" [] n = 9 -> "9"

RECURSIVE Decimal(_)
Decimal(n) ==
    IF n < 10 THEN <<DigitChar(n)>>
    ELSE Decimal(n \div 10) \o <<DigitChar(n % 10)>>

\* A number below 100 right-aligned in two characters.
PadLeft(n) == IF n < 10 THEN <<SP>> \o Decimal(n) ELSE Decimal(n)

----------------------------------------------------------------------------
(* part_one and part_two, from the value their traversal returned.         *)

NoWinningCall == <<[msg |-> "No winning call", tok |-> <<>>]>>

\* (call * sum).to_string().  A call that solves a card is the value of a
\* cell, below 100, and a sum is at most the 25 cells of five rows, so the
\* product stays far below 2^64.
Product(status) == Decimal(status.call * status.sum)

\* part_one answering the sum of call and sum.
MutPartOneAdd(found) ==
    IF found.tag = "Solved" THEN Ok(Decimal(found.call + found.sum)) ELSE Err(NoWinningCall)

\* part_one, given what find_winning_call returned.
part_one(found) ==
    IF found.tag = "Solved" THEN Ok(Product(found)) ELSE Err(NoWinningCall)

\* part_two, given what find_last_winner returned.
part_two(found) ==
    IF found.tag = "Some" /\ found.val.tag = "Solved"
    THEN Ok(Product(found.val)) ELSE Err(NoWinningCall)

----------------------------------------------------------------------------
(* The inputs, continued.                                                  *)

RECURSIVE Join(_, _)
Join(texts, sep) ==
    IF texts = <<>> THEN <<>>
    ELSE IF Len(texts) = 1 THEN texts[1]
         ELSE texts[1] \o sep \o Join(Tail(texts), sep)

RowText(values) == Join([i \in 1..Len(values) |-> PadLeft(values[i])], <<SP>>)
BlockText(rows) == Join([i \in 1..Len(rows) |-> RowText(rows[i])], <<NL>>)
CallsText(calls) == Join([i \in 1..Len(calls) |-> Decimal(calls[i])], <<COMMA>>)
InputText(head, blocks, trailer) == Join(<<head>> \o blocks, <<NL, NL>>) \o trailer

\* The sample of the tests.
SampleCalls ==
    <<7, 4, 9, 5, 11, 17, 23, 2, 0, 14, 21, 24, 10, 16, 13, 6, 15, 25, 12, 22,
      18, 20, 8, 19, 3, 26, 1>>

SampleRows ==
    << << <<22, 13, 17, 11, 0>>, <<8, 2, 23, 4, 24>>, <<21, 9, 14, 16, 7>>,
          <<6, 10, 3, 18, 5>>, <<1, 12, 20, 15, 19>> >>,
       << <<3, 15, 0, 2, 22>>, <<9, 18, 13, 17, 5>>, <<19, 8, 7, 25, 23>>,
          <<20, 11, 10, 24, 4>>, <<14, 21, 16, 12, 6>> >>,
       << <<14, 21, 17, 24, 4>>, <<10, 16, 15, 9, 19>>, <<18, 8, 23, 26, 20>>,
          <<22, 11, 13, 6, 5>>, <<2, 0, 12, 3, 7>> >> >>

TEST_INPUT ==
    InputText(CallsText(SampleCalls),
              [i \in 1..Len(SampleRows) |-> BlockText(SampleRows[i])], <<>>)

\* Four card blocks.  After the calls 1, 2, 3, 4: RowsA completes its first row
\* on 5, RowsB its second column on 5, RowsC its third row on 6 (and holds 5
\* twice).  RowsD is a block of two rows only, which holds 5 twice.
RowsA ==
    << <<1, 2, 3, 4, 5>>, <<6, 10, 11, 12, 13>>, <<7, 14, 15, 16, 17>>,
       <<8, 18, 19, 20, 21>>, <<9, 22, 23, 24, 25>> >>
RowsB ==
    << <<30, 1, 31, 32, 33>>, <<34, 2, 35, 36, 37>>, <<38, 3, 39, 40, 41>>,
       <<42, 4, 43, 44, 45>>, <<6, 5, 7, 46, 47>> >>
RowsC ==
    << <<50, 5, 51, 52, 53>>, <<54, 55, 56, 57, 58>>, <<4, 3, 2, 1, 6>>,
       <<59, 60, 61, 5, 62>>, <<63, 64, 65, 66, 7>> >>
RowsD ==
    << <<5, 6, 70, 71, 72>>, <<7, 5, 73, 74, 75>> >>

\* What an input is written from: a head (the calls line), card blocks and a
\* trailer.  calls are the integers of the head, rows the rows of a block as
\* written; fails is the message of the error a piece makes the parser
\* report, "" for a piece that parses.
HeadOf(calls) == [text |-> CallsText(calls), calls |-> calls, fails |-> ""]
OddHead(text, calls, msg) == [text |-> text, calls |-> calls, fails |-> msg]
Block(rows) == [text |-> BlockText(rows), rows |-> rows, fails |-> ""]
OddBlock(text, rows, msg) == [text |-> text, rows |-> rows, fails |-> msg]
Written(head, blocks, trailer) ==
    [head |-> head, blocks |-> blocks, trailer |-> trailer]
TextOf(w) ==
    InputText(w.head.text, [i \in 1..Len(w.blocks) |-> w.blocks[i].text], w.trailer)

EmptyMsg == "cannot parse integer from empty string"
DigitMsg == "invalid digit found in string"

MaxCards == 2
MaxTail == 2
MaxOps == 3

SeqsUpTo(S, n) == UNION {[1..m -> S] : m \in 0..n}

\* The games of the traversals: the sample, two games of three cards (with
\* the block of two rows), and every game of one to MaxCards of the three
\* blocks of five rows whose calls are nothing or 1, 2, 3, 4, and then up to
\* MaxTail calls among 5, 6, 7.
GameBlocks == {Block(RowsA), Block(RowsB), Block(RowsC)}
Prefixes == {<<>>, <<1, 2, 3, 4>>}
TailValues == {5, 6, 7}
GameCalls == {p \o t : p \in Prefixes, t \in SeqsUpTo(TailValues, MaxTail)}

Sample ==
    Written(HeadOf(SampleCalls), [i \in 1..Len(SampleRows) |-> Block(SampleRows[i])], <<>>)

\* Two games of three cards: in the first the second card never completes
\* and the first completes after the third; in the second all complete, the
\* first two on the same call.
ThreeCards ==
    {Written(HeadOf(<<1, 2, 3, 4, 5, 6>>), <<Block(RowsC), Block(RowsD), Block(RowsA)>>, <<>>),
     Written(HeadOf(<<1, 2, 3, 4, 5, 5, 7>>), <<Block(RowsB), Block(RowsA), Block(RowsD)>>, <<>>)}

GameInputs ==
    {Sample} \cup ThreeCards \cup
    {Written(HeadOf(c), b, <<>>) :
        c \in GameCalls \ {<<>>}, b \in SeqsUpTo(GameBlocks, MaxCards) \ {<<>>}}

\* The games of the sequences of operations.
AnyInputs ==
    {Written(HeadOf(g[1]), [i \in 1..Len(g[2]) |-> Block(g[2][i])], <<>>) :
        g \in {<< <<1, 2, 3, 4, 5, 6>>, <<RowsA, RowsC>> >>,
               << <<1, 2, 3, 4, 5, 5, 7>>, <<RowsB, RowsA>> >>,
               << <<5, 7, 6>>, <<RowsD, RowsA>> >>,
               << <<1, 2, 3, 4, 7, 5>>, <<RowsC, RowsD>> >>,
               << <<6, 1, 2, 3>>, <<RowsC>> >>}}

\* The inputs of the parser: heads and blocks written well and badly.
ParseHeads ==
    {HeadOf(<<7>>), HeadOf(<<7, 4, 7>>),
     OddHead(<<PLUS, "7", COMMA, "4">>, <<7, 4>>, ""),
     OddHead(<<>>, <<>>, EmptyMsg),
     OddHead(<<"7", COMMA, COMMA, "4">>, <<>>, EmptyMsg),
     OddHead(<<"7", COMMA, SP, "4">>, <<>>, DigitMsg)}

RowsA6 == RowsA \o << <<90, 91, 92, 93, 94>> >>

ParseBlocks ==
    {Block(RowsA), Block(RowsD),
     \* six rows
     OddBlock(BlockText(RowsA6), RowsA6, ""),
     \* a line of another shape, then five rows
     OddBlock(<<"x", NL>> \o BlockText(RowsA), RowsA, ""),
     \* lines ending "\r\n"
     OddBlock(Join([i \in 1..5 |-> RowText(RowsB[i])], <<CR, NL>>), RowsB, ""),
     \* no line of the shape of a row
     OddBlock(<<"h", "i">>, <<>>, ""),
     \* a row whose fourth field is two blanks
     OddBlock(RowText(RowsA[1]) \o <<NL>> \o PadLeft(6) \o <<SP>> \o PadLeft(10)
                  \o <<SP>> \o PadLeft(11) \o <<SP, SP, SP, SP>> \o PadLeft(13),
              <<>>, EmptyMsg),
     \* a row whose first field is a digit that is not ASCII
     OddBlock(<<SP, UnicodeDigit, SP>> \o PadLeft(2) \o <<SP>> \o PadLeft(3)
                  \o <<SP>> \o PadLeft(4) \o <<SP>> \o PadLeft(5),
              <<>>, DigitMsg)}

Trailers == {<<>>, <<NL>>, <<NL, NL>>}

ParseInputs ==
    {Written(h, b, t) :
        h \in ParseHeads, b \in SeqsUpTo(ParseBlocks, MaxCards), t \in Trailers}
    \ {Written(h, <<>>, <<NL>>) : h \in {a \in ParseHeads : a.fails # ""}}

-----
(* The state machine.                                                      *)

InitWith(inputs) ==
    /\ written \in inputs
    /\ input = TextOf(written)
    /\ pos = 0
    /\ state = WaitingForCalls
    /\ parsed = NoResult
    /\ game = BingoGame(<<>>, <<>>)
    /\ pc = "from_str"
    /\ ci = 0
    /\ ki = 0
    /\ win_count = 0
    /\ last_win = None
    /\ result = NoResult
    /\ answer = NoResult
    /\ ops = 0
    /\ arg = 0
    /\ who = 0
    /\ prev = NoResult
    /\ ret = NoResult

parseVars == <<written, input, pos, state, parsed>>
loopVars == <<ci, ki, win_count, last_win, result>>
callVars == <<arg, who, prev, ret>>

\* BingoGame::from_str, one chunk of the fold.
FoldChunk ==
    /\ pc = "from_str"
    /\ pos < Len(SplitBlank(input))
    /\ state' = Fold(state, SplitBlank(input)[pos + 1])
    /\ pos' = pos + 1
    /\ UNCHANGED <<written, input, parsed, game, pc, ops, answer>>
    /\ UNCHANGED loopVars
    /\ UNCHANGED callVars

\* BingoGame::from_str, the try_into() that ends it.
TryInto ==
    /\ pc = "from_str"
    /\ pos = Len(SplitBlank(input))
    /\ parsed' = try_from(state)
    /\ game' = IF parsed'.ok THEN parsed'.val ELSE game
    /\ pc' = IF parsed'.ok THEN "ready" ELSE "failed"
    /\ UNCHANGED <<written, input, pos, state, ops, answer>>
    /\ UNCHANGED loopVars
    /\ UNCHANGED callVars

\* A call of mark_value on one card of the game, as test_cards makes them.
CallValues == {1, 5, 6, 7, 99}

MarkValueCall ==
    /\ pc = "ready"
    /\ ops < MaxOps
    /\ \E k \in 1..Len(game.cards), v \in CallValues :
          LET card == mark_value(game.cards[k], v)
          IN  /\ game' = [game EXCEPT !.cards[k] = card]
              /\ arg' = v
              /\ who' = k
              /\ prev' = game.cards[k]
              /\ ret' = card.status
    /\ ops' = ops + 1
    /\ UNCHANGED <<pc, answer>>
    /\ UNCHANGED parseVars
    /\ UNCHANGED loopVars

\* Entry of a traversal: the loops start at the first call and the first card.
Enter(fn) ==
    /\ pc = "ready"
    /\ ops < MaxOps
    /\ pc' = fn
    /\ ci' = 1
    /\ ki' = 1
    /\ win_count' = 0
    /\ last_win' = None
    /\ result' = NoResult
    /\ ops' = ops + 1
    /\ UNCHANGED <<game, answer>>
    /\ UNCHANGED parseVars
    /\ UNCHANGED callVars

FwcCall == Enter("find_winning_call")
FlwCall == Enter("find_last_winner")

\* What an iteration that called mark_value leaves in arg, who, prev, ret.
Called(it) ==
    IF it.called
    THEN /\ arg' = game.calls[ci]
         /\ who' = ki
         /\ prev' = game.cards[ki]
         /\ ret' = it.ret
    ELSE UNCHANGED callVars

\* The loop goes on to the next card, or returns.
Advance(it) ==
    IF it.returns
    THEN /\ result' = it.value
         /\ pc' = "ready"
         /\ UNCHANGED <<ci, ki>>
    ELSE /\ ci' = NextCall(game, ci, ki)
         /\ ki' = NextCard(game, ci, ki)
         /\ UNCHANGED <<result, pc>>

FwcStep ==
    /\ pc = "find_winning_call"
    /\ ci <= Len(game.calls)
    /\ LET it == FwcIter(game, ci, ki)
       IN  /\ game' = it.game
           /\ Called(it)
           /\ Advance(it)
    /\ UNCHANGED <<win_count, last_win, ops, answer>>
    /\ UNCHANGED parseVars

\* The calls are exhausted: find_winning_call returns Unsolved.
FwcExhausted ==
    /\ pc = "find_winning_call"
    /\ ci > Len(game.calls)
    /\ result' = Unsolved
    /\ pc' = "ready"
    /\ UNCHANGED <<game, ci, ki, win_count, last_win, ops, answer>>
    /\ UNCHANGED parseVars
    /\ UNCHANGED callVars

FlwStep ==
    /\ pc = "find_last_winner"
    /\ ci <= Len(game.calls)
    /\ LET it == FlwIter(game, ci, ki, win_count, last_win)
       IN  /\ game' = it.game
           /\ win_count' = it.win_count
           /\ last_win' = it.last_win
           /\ Called(it)
           /\ Advance(it)
    /\ UNCHANGED <<ops, answer>>
    /\ UNCHANGED parseVars

\* The calls are exhausted: find_last_winner returns last_win.
FlwExhausted ==
    /\ pc = "find_last_winner"
    /\ ci > Len(game.calls)
    /\ result' = last_win
    /\ pc' = "ready"
    /\ UNCHANGED <<game, ci, ki, win_count, last_win, ops, answer>>
    /\ UNCHANGED parseVars
    /\ UNCHANGED callVars

\* Any sequence of at most MaxOps operations on a parsed game.
Init == InitWith(AnyInputs)

Next ==
    \/ FoldChunk
    \/ TryInto
    \/ MarkValueCall
    \/ FwcCall
    \/ FwcStep
    \/ FwcExhausted
    \/ FlwCall
    \/ FlwStep
    \/ FlwExhausted

Spec == Init /\ [][Next]_vars

\* find_winning_call on a freshly parsed game.
FirstCall == ops = 0 /\ FwcCall

NextFirst ==
    \/ FoldChunk
    \/ TryInto
    \/ FirstCall
    \/ FwcStep
    \/ FwcExhausted

InitGame == InitWith(GameInputs)

SpecFirst == InitGame /\ [][NextFirst]_vars

\* find_last_winner on a freshly parsed game.
LastCall == ops = 0 /\ FlwCall

NextLast ==
    \/ FoldChunk
    \/ TryInto
    \/ LastCall
    \/ FlwStep
    \/ FlwExhausted

SpecLast == InitGame /\ [][NextLast]_vars

\* BingoGame::from_str on any input.
InitParse == InitWith(ParseInputs)

NextParse ==
    \/ FoldChunk
    \/ TryInto

SpecParse == InitParse /\ [][NextParse]_vars

\* part_one and part_two.  Each parses the input, runs its traversal on the
\* game and answers from what the traversal returned; which of the two is
\* running shows at the call of the traversal, the code up to there being the
\* same.  The ? after parse returns the error of a failed parse as it is.
ParseFailed ==
    /\ pc = "failed"
    /\ answer' = Err(parsed.err)
    /\ pc' \in {"part_one", "part_two"}
    /\ UNCHANGED <<game, ops>>
    /\ UNCHANGED parseVars
    /\ UNCHANGED loopVars
    /\ UNCHANGED callVars

\* find_winning_call has returned a BingoCardStatus to part_one.
PartOneReturn ==
    /\ pc = "ready"
    /\ result.tag \in {"Solved", "Unsolved"}
    /\ answer' = part_one(result)
    /\ pc' = "part_one"
    /\ UNCHANGED <<game, ops>>
    /\ UNCHANGED parseVars
    /\ UNCHANGED loopVars
    /\ UNCHANGED callVars

\* find_last_winner has returned an Option to part_two.
PartTwoReturn ==
    /\ pc = "ready"
    /\ result.tag \in {"Some", "None"}
    /\ answer' = part_two(result)
    /\ pc' = "part_two"
    /\ UNCHANGED <<game, ops>>
    /\ UNCHANGED parseVars
    /\ UNCHANGED loopVars
    /\ UNCHANGED callVars

\* The inputs of the answers: the sample, the games of the sequences of
\* operations, and every head of the parser alone or with one block of the
\* parser.
AnswerInputs ==
    {Sample} \cup AnyInputs \cup
    {Written(h, b, <<>>) : h \in ParseHeads, b \in SeqsUpTo(ParseBlocks, 1)}

InitAnswer == InitWith(AnswerInputs)

NextAnswer ==
    \/ FoldChunk
    \/ TryInto
    \/ ParseFailed
    \/ FirstCall
    \/ FwcStep
    \/ FwcExhausted
    \/ PartOneReturn
    \/ LastCall
    \/ FlwStep
    \/ FlwExhausted
    \/ PartTwoReturn

SpecAnswer == InitAnswer /\ [][NextAnswer]_vars

\* One traversal, find_winning_call or find_last_winner, on a freshly parsed
\* game.
NextEither ==
    \/ FoldChunk
    \/ TryInto
    \/ FirstCall
    \/ FwcStep
    \/ FwcExhausted
    \/ LastCall
    \/ FlwStep
    \/ FlwExhausted

SpecEither == InitGame /\ [][NextEither]_vars

\* find_winning_call on a freshly parsed game, then find_last_winner on the
\* game as find_winning_call left it.
ThenLastCall == ops = 1 /\ FlwCall

NextBoth ==
    \/ FoldChunk
    \/ TryInto
    \/ FirstCall
    \/ FwcStep
    \/ FwcExhausted
    \/ ThenLastCall
    \/ FlwStep
    \/ FlwExhausted

\* The games of the traversals but the sample.
InitBoth == InitWith(GameInputs \ {Sample})

SpecBoth == InitBoth /\ [][NextBoth]_vars

----------------------------------------------------------------------------
(* What the properties are stated with.                                    *)

\* The values of a card's cells, row by row.
CardValues(card) ==
    [y \in 1..Len(card.cells) |->
        [x \in 1..Len(card.cells[y]) |-> card.cells[y][x].value]]

IsPrefix(a, b) == Len(a) <= Len(b) /\ a = SubSeq(b, 1, Len(a))

\* The from_str call has returned.
Returned == pc \in {"ready", "failed"} /\ parsed # NoResult

\* The input ends with a blank line: an empty chunk follows the last block.
BlankEnd == written.trailer = <<NL, NL>>

\* The message of the first piece of the input, in order, that fails.  A head
\* with no block after it is one chunk with the trailer, which is no integer.
FirstFailure(w) ==
    LET bad == {i \in 1..Len(w.blocks) : w.blocks[i].fails # ""}
    IN  IF w.head.fails # "" THEN w.head.fails
        ELSE IF w.blocks = <<>> /\ w.trailer = <<NL>> THEN DigitMsg
             ELSE IF bad = {} THEN "" ELSE w.blocks[Least(bad)].fails

\* Rows and columns of a grid of cells that are all Marked.
RowDone(cells, y) == \A x \in 1..Len(cells[y]) : cells[y][x].status = Marked
ColDone(cells, x) == \A y \in 1..Len(cells) : cells[y][x].status = Marked

DoneLines(cells) ==
    {<<"row", y>> : y \in {i \in 1..Len(cells) : RowDone(cells, i)}}
    \cup {<<"column", x>> : x \in {i \in 1..RowFields : cells # <<>> /\ ColDone(cells, i)}}

\* The sum of the values of the Unmarked cells, cell by cell.
RECURSIVE SumOf(_, _)
SumOf(cells, at) ==
    IF at = {} THEN 0
    ELSE LET p == CHOOSE q \in at : TRUE
         IN  cells[p[1]][p[2]].value + SumOf(cells, at \ {p})

UnmarkedTotal(cells) ==
    SumOf(cells, {p \in (1..Len(cells)) \X (1..RowFields) :
                     cells[p[1]][p[2]].status = Unmarked})

HasValue(card, v) ==
    \E y \in 1..Len(card.cells) : \E x \in 1..Len(card.cells[y]) :
        card.cells[y][x].value = v

\* A card given calls one after the other (a card without rows stays as it
\* is).
RECURSIVE ApplyCalls(_, _)
ApplyCalls(card, calls) ==
    IF calls = <<>> \/ card.cells = <<>> THEN card
    ELSE ApplyCalls(mark_value(card, calls[1]), Tail(calls))

\* mark_value has been called; the card it was called on is game.cards[who].
WasCalled == who # 0

\* A traversal of the game as parsed has returned.
Fresh == parsed.val.cards
Traversed == pc = "ready" /\ ops = 1 /\ result # NoResult

\* The first call, by its position in the calls, after which a card of the
\* game as parsed is Solved when it is given the calls in order; 0 if none.
SolvedBy(k, c) == ApplyCalls(Fresh[k], SubSeq(game.calls, 1, c)).status.tag = "Solved"
SolveAt(k) ==
    LET at == {c \in 1..Len(game.calls) : SolvedBy(k, c)}
    IN  IF at = {} THEN 0 ELSE Least(at)
Solvers == {k \in 1..Len(game.cards) : SolveAt(k) > 0}

\* (c, k) comes before (d, j) in call order, then card order.
Before(c, k, d, j) == c < d \/ (c = d /\ k < j)

FirstSolver == CHOOSE k \in Solvers :
    \A j \in Solvers \ {k} : Before(SolveAt(k), k, SolveAt(j), j)
LastSolver == CHOOSE k \in Solvers :
    \A j \in Solvers \ {k} : Before(SolveAt(j), j, SolveAt(k), k)

\* The card as it is when it becomes Solved.
WhenSolved(k) == ApplyCalls(Fresh[k], SubSeq(game.calls, 1, SolveAt(k)))

----------------------------------------------------------------------------
(* The parser.                                                             *)

C7_ErrorAbsorbing ==
    /\ [][state.tag = "Error" => state' = state]_vars
    /\ []((Returned /\ state.tag = "Error") =>
            /\ ~parsed.ok
            /\ parsed.err = WithContext(state.err, "Unable to parse game", <<>>)
            /\ state.err[Len(state.err)].msg = FirstFailure(written))

\* The first block fails on an empty field, the second on a digit.
C7_Witness ==
    /\ Returned /\ state.tag = "Error"
    /\ written.head.fails = ""
    /\ Len(written.blocks) = 2
    /\ written.blocks[1].fails = EmptyMsg
    /\ written.blocks[2].fails = DigitMsg

\* C8: when all chunks are consumed the parse returns a game exactly when the
\* state is Boards, and then the game of that state; it returns an error when
\* the state is Calls (no chunk after the calls) or Error.
C8_GameIffBoards ==
    Returned =>
        /\ parsed.ok <=> state.tag = "Boards"
        /\ parsed.ok => parsed.val = BingoGame(state.calls, state.cards)
        /\ state.tag = "Calls" => written.blocks = <<>>
        /\ FirstFailure(written) # "" <=> state.tag = "Error"

\* The input is a line of calls and nothing else.
C8_Witness ==
    /\ Returned /\ ~parsed.ok
    /\ state.tag = "Calls"
    /\ state.calls = <<7, 4, 7>>

\* C9 as claimed: the cards of a parsed game are not empty and all have the
\* same dimensions, as many rows as a row has cells, whatever the chunks
\* after the calls hold.
C9_SquareCards ==
    (Returned /\ parsed.ok) =>
        /\ parsed.val.cards # <<>>
        /\ \A i \in 1..Len(parsed.val.cards) :
              LET cells == parsed.val.cards[i].cells
              IN  /\ Len(cells) = Len(parsed.val.cards[1].cells)
                  /\ \A y \in 1..Len(cells) : Len(cells[y]) = Len(cells)

----------------------------------------------------------------------------
(* The card.                                                               *)

\* C1 as claimed: once a card is Solved, no later call changes the call and
\* the sum its status holds.
C1_SolvedLatch ==
    [][\A k \in 1..Len(game.cards) :
          game.cards[k].status.tag = "Solved"
              => game'.cards[k].status = game.cards[k].status]_vars

\* C2: a call of mark_value(v) on an Unsolved card that makes a row or a
\* column of the card all Marked returns Solved with call v and the sum of the
\* values of the cells Unmarked after the call; a call that leaves no row and
\* no column all Marked returns Unsolved.  The status returned is the status
\* stored.
C2_SolvedOnCompletion ==
    (WasCalled /\ prev.status = Unsolved) =>
        LET cells == game.cards[who].cells
        IN  /\ DoneLines(cells) # DoneLines(prev.cells)
                  => ret = Solved(arg, UnmarkedTotal(cells))
            /\ DoneLines(cells) = {} => ret = Unsolved
            /\ ret = game.cards[who].status

\* The call completes a column and no row, and cells are left Unmarked.
C2_Witness ==
    /\ WasCalled /\ prev.status = Unsolved
    /\ DoneLines(prev.cells) = {}
    /\ DoneLines(game.cards[who].cells) = {<<"column", 2>>}
    /\ ret.tag = "Solved" /\ ret.call = 5 /\ ret.sum > 0

\* C10: a call of mark_value(v) on a card without a cell of value v changes
\* no cell and not the status, and returns the status the card had, Unsolved
\* or Solved.
C10_AbsentValue ==
    (WasCalled /\ ~HasValue(prev, arg)) =>
        /\ game.cards[who] = prev
        /\ ret = prev.status

\* A Solved card is given a value it does not hold.
C10_Witness ==
    /\ WasCalled /\ ~HasValue(prev, arg)
    /\ prev.status.tag = "Solved"
    /\ ret.tag = "Solved"

----------------------------------------------------------------------------
(* The traversals.                                                         *)

\* C3: find_winning_call on a game as parsed returns the status of the first
\* card to become Solved when the calls are given in order and, for each
\* call, the cards in order: of the cards that complete on the earliest call
\* on which any card completes, the one of the lowest index.  The cards before
\* it have been given that call, the cards after it have not.
C3_FirstWinner ==
    (Traversed /\ result.tag = "Solved") =>
        /\ Solvers # {}
        /\ ki = FirstSolver
        /\ ci = SolveAt(FirstSolver)
        /\ result = WhenSolved(FirstSolver).status
        /\ \A k \in 1..Len(game.cards) :
              game.cards[k] =
                  ApplyCalls(Fresh[k],
                             SubSeq(game.calls, 1, IF k <= ki THEN ci ELSE ci - 1))

\* Two cards complete on the same call; the first of them is returned.
C3_Witness ==
    /\ Traversed /\ result.tag = "Solved"
    /\ \E j \in Solvers : j > ki /\ SolveAt(j) = ci
    /\ game.cards[ki].status = result

\* C4: find_last_winner on a game as parsed returns the status of the card
\* that became Solved last, in call order and then card order.  It returns at
\* that card's call when every card becomes Solved, and otherwise when the
\* calls are exhausted, with the last win seen, or None when no card became
\* Solved.
C4_LastWinner ==
    Traversed =>
        /\ Solvers = {} => result = None
        /\ Solvers # {} => result = Some(WhenSolved(LastSolver).status)
        /\ Solvers = 1..Len(game.cards)
              => ci = SolveAt(LastSolver) /\ ki = LastSolver
        /\ Solvers # 1..Len(game.cards) => ci = Len(game.calls) + 1

\* Two cards became Solved on different calls and a third did not.
C4_Witness ==
    /\ Traversed /\ result.tag = "Some"
    /\ Solvers # 1..Len(game.cards)
    /\ \E j \in Solvers : SolveAt(j) < SolveAt(LastSolver)
    /\ ci = Len(game.calls) + 1

\* C5: while find_last_winner runs, a card that is Solved keeps its status and
\* the marks of its cells, and mark_value is called on Unsolved cards only.
C5_SolvedFrozen ==
    [][pc = "find_last_winner" =>
          /\ \A k \in 1..Len(game.cards) :
                game.cards[k].status.tag = "Solved" => game'.cards[k] = game.cards[k]
          /\ <<arg, who, prev, ret>>' # <<arg, who, prev, ret>>
                => prev'.status = Unsolved]_vars

\* find_last_winner is entered with a Solved card and comes to it with a call
\* the card holds in an Unmarked cell.
C5_Witness ==
    /\ pc = "find_last_winner"
    /\ ops > 1
    /\ ci <= Len(game.calls)
    /\ game.cards[ki].status.tag = "Solved"
    /\ win_count = 0
    /\ mark_value(game.cards[ki], game.calls[ci]).cells # game.cards[ki].cells

----------------------------------------------------------------------------
(* The card under any sequence of operations.                              *)

\* C11: a card that is Solved stays Solved: no step of mark_value,
\* find_winning_call or find_last_winner takes the status of a card from
\* Solved to Unsolved, whatever the sequence of operations.
C11_SolvedStays ==
    [][\A k \in 1..Len(game.cards) :
          game.cards[k].status.tag = "Solved"
              => game'.cards[k].status.tag = "Solved"]_vars

\* A Solved card has been given a value it holds, and is Solved after it.
C11_Witness ==
    /\ WasCalled /\ prev.status.tag = "Solved"
    /\ HasValue(prev, arg)
    /\ game.cards[who].status.tag = "Solved"

----------------------------------------------------------------------------
(* The answers.                                                            *)

\* part_one or part_two has returned.
Answered == pc \in {"part_one", "part_two"}

\* The product of the call and the sum of a Solved status.
CallTimesSum(status) == status.call * status.sum

\* C12: part_one and part_two return the decimal text of call * sum of the
\* Solved status found, the first card to win for part_one and the last for
\* part_two; they return the error "No winning call" exactly when the
\* traversal found no Solved status (Unsolved from find_winning_call, None
\* from find_last_winner), which is when no card of the game completes; and
\* when the parse fails they return its error, and no traversal has run and
\* no card has been given a call.
C12_Answers ==
    Answered =>
        /\ ~parsed.ok =>
              /\ answer = Err(parsed.err)
              /\ answer # Err(NoWinningCall)
              /\ ops = 0 /\ ~WasCalled /\ result = NoResult
        /\ parsed.ok =>
              /\ answer = Err(NoWinningCall) <=> result \in {Unsolved, None}
              /\ answer = Err(NoWinningCall) <=> Solvers = {}
              /\ ~answer.ok => answer = Err(NoWinningCall)
              /\ (answer.ok /\ pc = "part_one") =>
                    /\ result = WhenSolved(FirstSolver).status
                    /\ ParseU64(answer.val) = Ok(CallTimesSum(WhenSolved(FirstSolver).status))
              /\ (answer.ok /\ pc = "part_two") =>
                    /\ result = Some(WhenSolved(LastSolver).status)
                    /\ ParseU64(answer.val) = Ok(CallTimesSum(WhenSolved(LastSolver).status))

\* part_two answers from the last win of a game in which a card never
\* completes.
C12_Witness ==
    /\ pc = "part_two" /\ answer.ok
    /\ Solvers # {} /\ Solvers # 1..Len(game.cards)
    /\ ParseU64(answer.val).val > 0

----------------------------------------------------------------------------
(* The traversals, continued.                                              *)

\* C13: find_winning_call on a game as parsed returns Unsolved exactly when
\* no card has a row or a column all Marked after it has been given all the
\* calls; and when it returns Unsolved, the calls are exhausted and every card
\* of the game has been given every call.
C13_UnsolvedIffNoLine ==
    Traversed =>
        /\ result = Unsolved <=>
              \A k \in 1..Len(Fresh) :
                  DoneLines(ApplyCalls(Fresh[k], game.calls).cells) = {}
        /\ result = Unsolved =>
              /\ ci = Len(game.calls) + 1
              /\ \A k \in 1..Len(Fresh) :
                    game.cards[k] = ApplyCalls(Fresh[k], game.calls)

\* Unsolved is returned for two cards that were given calls they hold.
C13_Witness ==
    /\ Traversed /\ result = Unsolved
    /\ Len(game.cards) = 2
    /\ \A k \in 1..2 : game.cards[k] # Fresh[k]

----------------------------------------------------------------------------
(* The parser, continued.                                                  *)

\* The rows of a block as written, cut to n rows.
FirstRows(block, n) ==
    SubSeq(block.rows, 1, IF n < Len(block.rows) THEN n ELSE Len(block.rows))

\* The lines of a block, among the first five, that have the shape of a row.
RowsRead(block) ==
    LET ls == Lines(block.text)
    IN  {j \in 1..Len(ls) : j <= TakeLines /\ RowMatches(ls[j])}

\* C14 as claimed: a line that has not the shape of a row is skipped without
\* failing and does not count toward the five rows: the rows of the card of a
\* block are the first five well-formed lines of the block.
C14_FirstFiveRows ==
    (Returned /\ parsed.ok) =>
        \A i \in 1..Len(written.blocks) :
            CardValues(parsed.val.cards[i]) = FirstRows(written.blocks[i], TakeLines)

\* C14 as amended: a line that has not the shape of a row is skipped without
\* failing, but it is one of the five lines read: the rows of the card of a
\* block are the well-formed lines among the first five lines of the block,
\* in order.
C14_FirstFiveLines ==
    (Returned /\ parsed.ok) =>
        \A i \in 1..Len(written.blocks) :
            CardValues(parsed.val.cards[i])
                = FirstRows(written.blocks[i], Cardinality(RowsRead(written.blocks[i])))

\* A block of one line of another shape and five rows gives a card of four
\* rows.
C14_Witness ==
    /\ Returned /\ parsed.ok
    /\ \E i \in 1..Len(written.blocks) :
          /\ ~RowMatches(Lines(written.blocks[i].text)[1])
          /\ Len(written.blocks[i].rows) = TakeLines
          /\ Len(parsed.val.cards[i].cells) = TakeLines - 1


\* A field that is no integer: nothing but blanks, or a character that is not
\* an ASCII digit.
Unparsable(f) ==
    \/ \A i \in 1..Len(f) : f[i] = SP
    \/ \E i \in 1..Len(f) : f[i] \notin AsciiDigit \cup {SP}

\* A text with, among the first five of its lines, a line of the shape of a
\* row with a field that is no integer.
HasBadRow(text) ==
    LET ls == Lines(text)
    IN  \E j \in 1..Len(ls) :
            /\ j <= TakeLines
            /\ RowMatches(ls[j])
            /\ \E k \in 1..RowFields : Unparsable(Capture(ls[j], k))

\* C15: the card parser fails on a chunk that has, among the lines it reads, a
\* line of the shape of a row with a field that is no integer (two blanks, or
\* a digit that is not ASCII); the fold of that chunk takes the state from
\* Calls or Boards to Error, and the parse of an input with such a block
\* after a good head returns an error, not a game.
C15_BadFieldFails ==
    /\ [][(/\ pc = "from_str"
           /\ pos < Len(SplitBlank(input))
           /\ state.tag \in {"Calls", "Boards"}
           /\ HasBadRow(SplitBlank(input)[pos + 1]))
             => /\ ~BingoCard_from_str(SplitBlank(input)[pos + 1]).ok
                /\ state'.tag = "Error"]_vars
    /\ []((/\ Returned
           /\ written.head.fails = ""
           /\ \E i \in 1..Len(written.blocks) : HasBadRow(written.blocks[i].text))
             => ~parsed.ok /\ state.tag = "Error")

\* A block of five rows, then a block with a row whose field is two blanks:
\* the state went from Boards to Error.
C15_Witness ==
    /\ Returned /\ ~parsed.ok
    /\ written.head.fails = ""
    /\ Len(written.blocks) = 2
    /\ written.blocks[1] = Block(RowsA)
    /\ HasBadRow(written.blocks[2].text)
    /\ written.blocks[2].fails = EmptyMsg
    /\ state.tag = "Error"


\* The sum of the values of all the cells of a grid, cell by cell.
Total(cells) == SumOf(cells, (1..Len(cells)) \X (1..RowFields))

\* C16: every card of a game as parsed, before any call is made: all its
\* cells are Unmarked, its status is Unsolved, and unmarked_sum() is the sum
\* of the values of all its cells.
C16_FreshCards ==
    (Returned /\ parsed.ok) =>
        \A k \in 1..Len(game.cards) :
            LET card == game.cards[k]
            IN  /\ \A y \in 1..Len(card.cells) : \A x \in 1..Len(card.cells[y]) :
                      card.cells[y][x].status = Unmarked
                /\ card.status = Unsolved
                /\ unmarked_sum(card) = Total(card.cells)

\* A game of a card of five rows and a card of two rows, with different
\* sums.
C16_Witness ==
    /\ Returned /\ parsed.ok
    /\ ~WasCalled
    /\ Len(game.cards) = 2
    /\ Len(game.cards[1].cells) = 5 /\ unmarked_sum(game.cards[1]) = 325
    /\ Len(game.cards[2].cells) = 2 /\ unmarked_sum(game.cards[2]) = 458

----------------------------------------------------------------------------
(* The sample of the tests.                                                *)

\* C17: on the sample (the 27 calls and the three cards of TEST_INPUT) as
\* parsed, find_winning_call returns Solved with call 24 and sum 188; the
\* card is the third, which completes its first row on the twelfth call; and
\* part_one answers 4512.
C17_SampleFirst ==
    (input = TEST_INPUT /\ game.calls = SampleCalls /\ Len(game.cards) = 3) =>
        /\ result.tag \in {"Solved", "Unsolved"} =>
              /\ result = Solved(24, 188)
              /\ ki = 3
              /\ game.calls[ci] = 24
              /\ DoneLines(game.cards[3].cells) = {<<"row", 1>>}
              /\ \A k \in 1..2 : game.cards[k].status = Unsolved
        /\ pc = "part_one" => answer = Ok(<<"4", "5", "1", "2">>)

\* part_one has answered for the sample.
C17_Witness ==
    /\ input = TEST_INPUT
    /\ pc = "part_one"
    /\ answer.ok
    /\ game.cards[3].status.tag = "Solved"

\* C18: on the sample as parsed, find_last_winner returns Some of Solved with
\* call 13 and sum 148; the card is the second, the last of the three to
\* complete, which completes its third column on the fifteenth call; and
\* part_two answers 1924.
C18_SampleLast ==
    (input = TEST_INPUT /\ game.calls = SampleCalls /\ Len(game.cards) = 3) =>
        /\ result.tag \in {"Some", "None"} =>
              /\ result = Some(Solved(13, 148))
              /\ ki = 2
              /\ game.calls[ci] = 13
              /\ win_count = 3
              /\ game.cards[2].status = Solved(13, 148)
              /\ <<"column", 3>> \in DoneLines(game.cards[2].cells)
        /\ pc = "part_two" => answer = Ok(<<"1", "9", "2", "4">>)

\* part_two has answered for the sample.
C18_Witness ==
    /\ input = TEST_INPUT
    /\ pc = "part_two"
    /\ answer.ok
    /\ \A k \in 1..3 : game.cards[k].status.tag = "Solved"

----------------------------------------------------------------------------
(* The order of the cards.                                                 *)

\* find_winning_call run to its return from the iteration for call c and card
\* k: the value it returns.
RECURSIVE FwcRun(_, _, _)
FwcRun(g, c, k) ==
    IF c > Len(g.calls) \/ g.cards = <<>> THEN Unsolved
    ELSE LET it == FwcIter(g, c, k)
         IN  IF it.returns THEN it.value
             ELSE FwcRun(it.game, NextCall(g, c, k), NextCard(g, c, k))

\* The orders of n cards.
Orders(n) == {p \in [1..n -> 1..n] : \A i, j \in 1..n : p[i] = p[j] => i = j}

\* The game as parsed with its cards in the order p.
Shuffled(p) == BingoGame(game.calls, [i \in 1..Len(Fresh) |-> Fresh[p[i]]])

\* The cards that complete on the earliest call on which any card completes.
Earliest == {k \in Solvers : \A j \in Solvers : SolveAt(k) <= SolveAt(j)}

\* C19: on a game as parsed in which at most one card completes on the
\* earliest call on which any card completes, find_winning_call returns the
\* same status, Solved with the same call and sum, for every order of the
\* cards; the status returned differs between two orders of the cards only
\* when two or more cards complete on that call.
C19_OrderOfCards ==
    Traversed =>
        /\ result = FwcRun(parsed.val, 1, 1)
        /\ Cardinality(Earliest) <= 1 =>
              \A p \in Orders(Len(Fresh)) : FwcRun(Shuffled(p), 1, 1) = result
        /\ (\E p \in Orders(Len(Fresh)) : FwcRun(Shuffled(p), 1, 1) # result)
              => Cardinality(Earliest) >= 2

\* Three cards; the only card to complete on the earliest call is the last,
\* and another card completes later.
C19_Witness ==
    /\ Traversed /\ result.tag = "Solved"
    /\ Len(game.cards) = 3
    /\ Earliest = {3}
    /\ Solvers # Earliest

----------------------------------------------------------------------------
(* The cells.                                                              *)

\* C20: under any sequence of mark_value, find_winning_call and
\* find_last_winner operations on a parsed game, a cell that is Marked stays
\* Marked, and no cell changes its value or its place: the game keeps its
\* calls and its cards, every card its rows and every row its cells, with the
\* same values.
C20_CellsMonotonic ==
    [][pc # "from_str" =>
          /\ game'.calls = game.calls
          /\ Len(game'.cards) = Len(game.cards)
          /\ \A k \in 1..Len(game.cards) :
                /\ CardValues(game'.cards[k]) = CardValues(game.cards[k])
                /\ \A y \in 1..Len(game.cards[k].cells) :
                      \A x \in 1..Len(game.cards[k].cells[y]) :
                          game.cards[k].cells[y][x].status = Marked
                              => game'.cards[k].cells[y][x].status = Marked]_vars

\* A card is given a value that it holds in a cell already Marked.
C20_Witness ==
    /\ WasCalled
    /\ \E y \in 1..Len(prev.cells) : \E x \in 1..Len(prev.cells[y]) :
          /\ prev.cells[y][x].value = arg
          /\ prev.cells[y][x].status = Marked
          /\ FirstMatch(prev.cells, arg) = <<x, y>>
          /\ game.cards[who].cells[y][x].status = Marked

----------------------------------------------------------------------------
(* The calls of mark() inside the traversals.                              *)

\* The traversal is at an iteration that gives the call at ci to the card at
\* ki (find_last_winner gives it to an Unsolved card only).
Giving ==
    /\ pc \in {"find_winning_call", "find_last_winner"}
    /\ ci <= Len(game.calls)
    /\ pc = "find_last_winner" => game.cards[ki].status = Unsolved

\* (x, y) is the first cell of the grid, row by row, that holds the value v:
\* the cell mark_value calls mark() on.
IsFirstCell(cells, v, x, y) ==
    /\ cells[y][x].value = v
    /\ \A r \in 1..Len(cells) : \A c \in 1..Len(cells[r]) :
          (r < y \/ (r = y /\ c < x)) => cells[r][c].value # v

\* The places of the cells of a card.
Places(card) ==
    {p \in (1..RowFields) \X (1..Len(card.cells)) : p[1] <= Len(card.cells[p[2]])}

\* The call at ci was made before it in the calls.
Repeated == \E c \in 1..(ci - 1) : game.calls[c] = game.calls[ci]

\* C21 as claimed: in a run of find_winning_call or find_last_winner, the cell
\* mark() is called on is never a cell that is Marked already.
C21_MarkOnce ==
    [][Giving =>
          \A p \in Places(game.cards[ki]) :
              IsFirstCell(game.cards[ki].cells, game.calls[ci], p[1], p[2])
                  => game.cards[ki].cells[p[2]][p[1]].status = Unmarked]_vars

\* C21 as amended: in a run of find_winning_call or find_last_winner on a game
\* as parsed, the cell mark() is called on is Marked already exactly when the
\* call is a value that was called before (the calls are not de-duplicated);
\* the cell is Marked after the call, and a call of mark() on a Marked cell
\* changes no cell of the card.
C21_MarkAgainOnRepeat ==
    [][Giving =>
          \A p \in Places(game.cards[ki]) :
              IsFirstCell(game.cards[ki].cells, game.calls[ci], p[1], p[2]) =>
                  /\ game'.cards[ki].cells[p[2]][p[1]].status = Marked
                  /\ game.cards[ki].cells[p[2]][p[1]].status = Marked <=> Repeated
                  /\ Repeated => game'.cards[ki].cells = game.cards[ki].cells]_vars

\* find_last_winner has given a card a value for the second time, and the
\* card holds the value in two cells.
C21_Witness ==
    /\ pc = "find_last_winner"
    /\ WasCalled
    /\ ops = 1
    /\ result = NoResult
    /\ win_count = 0
    /\ game.cards[who] = prev
    /\ \E p \in Places(prev) :
          /\ IsFirstCell(prev.cells, arg, p[1], p[2])
          /\ prev.cells[p[2]][p[1]].status = Marked
          /\ \E q \in Places(prev) \ {p} : prev.cells[q[2]][q[1]].value = arg

----------------------------------------------------------------------------
(* The cells one call of mark_value touches.                               *)

\* C22: a call of mark_value(v) touches at most one cell: the first cell, row
\* by row, that holds v is Marked after the call and every other cell is as it
\* was, the later cells that hold v included; so under any sequence of
\* operations a cell that is Marked is the first cell of its value on its
\* card, and a later cell of the same value is never Marked.
C22_OneCellPerCall ==
    /\ WasCalled =>
          /\ ~HasValue(prev, arg) => game.cards[who].cells = prev.cells
          /\ \A p \in Places(prev) :
                IsFirstCell(prev.cells, arg, p[1], p[2]) =>
                    game.cards[who].cells
                        = [prev.cells EXCEPT ![p[2]][p[1]].status = Marked]
    /\ \A k \in 1..Len(game.cards) : \A p \in Places(game.cards[k]) :
          LET cells == game.cards[k].cells
          IN  cells[p[2]][p[1]].status = Marked
                  => IsFirstCell(cells, cells[p[2]][p[1]].value, p[1], p[2])

\* A card that holds a value in two cells has been given the value twice: the
\* second of the cells is Unmarked.
C22_Witness ==
    /\ WasCalled
    /\ \E p \in Places(prev) : \E q \in Places(prev) \ {p} :
          /\ IsFirstCell(prev.cells, arg, p[1], p[2])
          /\ prev.cells[p[2]][p[1]].status = Marked
          /\ prev.cells[q[2]][q[1]].value = arg
          /\ game.cards[who].cells[q[2]][q[1]].status = Unmarked
    /\ pc = "ready" /\ ops >= 2

----------------------------------------------------------------------------
(* The status of a card and its lines.                                     *)

\* C23: in every state reached from the parsed cards by calls of mark_value,
\* those of the traversals included, a card is Solved exactly when one of its
\* rows or one of its columns is all Marked.
C23_SolvedIffLine ==
    \A k \in 1..Len(game.cards) :
        game.cards[k].status.tag = "Solved" <=> DoneLines(game.cards[k].cells) # {}

\* After calls of mark_value alone, a card of two rows is Solved by a column
\* and the other card has a Marked cell and is Unsolved.
C23_Witness ==
    /\ pc = "ready" /\ result = NoResult /\ ops >= 2
    /\ \E k \in 1..Len(game.cards) :
          /\ game.cards[k].status.tag = "Solved"
          /\ DoneLines(game.cards[k].cells) = {<<"column", 1>>}
    /\ \E j \in 1..Len(game.cards) :
          /\ game.cards[j].status = Unsolved
          /\ \E p \in Places(game.cards[j]) :
                game.cards[j].cells[p[2]][p[1]].status = Marked

----------------------------------------------------------------------------
(* The end of find_last_winner.                                            *)

AllSolved(cards) == \A k \in 1..Len(cards) : cards[k].status.tag = "Solved"

\* C24: on a game as parsed of which every card completes, find_last_winner
\* returns at the step that makes the last Unsolved card Solved: the step of
\* the traversal after which every card is Solved is the step that returns;
\* at the return every card is Solved and is as it was when it became Solved,
\* so no card was given a call after it, and the last call of mark_value was
\* made on the last card to complete, with the call it completes on.
C24_StopsAtLastWin ==
    /\ [][(pc = "find_last_winner" /\ AllSolved(game'.cards)) => pc' = "ready"]_vars
    /\ []((Traversed /\ Solvers = 1..Len(game.cards)) =>
            /\ AllSolved(game.cards)
            /\ \A k \in 1..Len(game.cards) : game.cards[k] = WhenSolved(k)
            /\ ci = SolveAt(LastSolver) /\ ki = LastSolver
            /\ who = ki /\ arg = game.calls[ci] /\ prev.status = Unsolved
            /\ win_count = Len(game.cards))

\* Every card is Solved, and a call that was never given is the value of an
\* Unmarked cell.
C24_Witness ==
    /\ Traversed /\ Solvers = 1..Len(game.cards)
    /\ Len(game.cards) >= 2
    /\ ci < Len(game.calls)
    /\ \E k \in 1..Len(game.cards) : \E p \in Places(game.cards[k]) :
          /\ game.cards[k].cells[p[2]][p[1]].status = Unmarked
          /\ IsFirstCell(game.cards[k].cells, game.calls[Len(game.calls)], p[1], p[2])

----------------------------------------------------------------------------
(* The two traversals, each on its own copy of the game.                   *)

\* What find_winning_call returns on a copy of the game as parsed.
FirstOfFresh == FwcRun(parsed.val, 1, 1)

\* C25: find_last_winner on a game as parsed returns None exactly when
\* find_winning_call on a copy of that game returns Unsolved; and on a game
\* of one card it returns Some(s) exactly when find_winning_call on the copy
\* returns the Solved status s.
C25_LastAgreesWithFirst ==
    Traversed =>
        /\ result = None <=> FirstOfFresh = Unsolved
        /\ Len(Fresh) = 1 =>
              /\ result.tag = "Some" => FirstOfFresh = result.val
              /\ FirstOfFresh.tag = "Solved" => result = Some(FirstOfFresh)

\* A game of one card that completes before the calls are exhausted.
C25_Witness ==
    /\ Traversed
    /\ Len(Fresh) = 1
    /\ result.tag = "Some"
    /\ result.val.tag = "Solved"
    /\ FirstOfFresh = result.val
    /\ ci < Len(game.calls)

----------------------------------------------------------------------------
(* What a Solved card holds during find_last_winner.                       *)

\* C26: at every step of find_last_winner on a game as parsed, and at its
\* return, the sum held by the status of every Solved card is the card's
\* unmarked_sum(), the sum of the values of its Unmarked cells, and the call
\* it holds is the value of the last cell Marked on the card: the step that
\* makes a card Solved marks one Unmarked cell, whose value is the call of
\* the status, and no later step changes the card.
C26_SolvedHoldsLastMark ==
    /\ [][pc = "find_last_winner" =>
            \A k \in 1..Len(game.cards) :
                game'.cards[k].status.tag = "Solved" =>
                    IF game.cards[k].status = Unsolved
                    THEN \E p \in Places(game.cards[k]) :
                            /\ game.cards[k].cells[p[2]][p[1]].status = Unmarked
                            /\ game.cards[k].cells[p[2]][p[1]].value
                                   = game'.cards[k].status.call
                            /\ game'.cards[k].cells
                                   = [game.cards[k].cells EXCEPT ![p[2]][p[1]].status = Marked]
                    ELSE game'.cards[k] = game.cards[k]]_vars
    /\ [](\A k \in 1..Len(game.cards) :
            game.cards[k].status.tag = "Solved" =>
                /\ game.cards[k].status.sum = unmarked_sum(game.cards[k])
                /\ game.cards[k].status.sum = UnmarkedTotal(game.cards[k].cells))

\* find_last_winner has returned; a Solved card holds, in an Unmarked cell, a
\* value that was called after the card became Solved.
C26_Witness ==
    /\ Traversed /\ result.tag = "Some"
    /\ \E k \in 1..Len(game.cards) :
          /\ game.cards[k].status.tag = "Solved"
          /\ game.cards[k].status # result.val
          /\ \E p \in Places(game.cards[k]) :
                /\ game.cards[k].cells[p[2]][p[1]].status = Unmarked
                /\ IsFirstCell(game.cards[k].cells, arg, p[1], p[2])

----------------------------------------------------------------------------
(* find_last_winner after find_winning_call, on the same game.             *)

\* find_last_winner run to its return from the iteration for call c and card
\* k, with the locals wc and lw: the value it returns.
RECURSIVE FlwRun(_, _, _, _, _)
FlwRun(g, c, k, wc, lw) ==
    IF c > Len(g.calls) \/ g.cards = <<>> THEN lw
    ELSE LET it == FlwIter(g, c, k, wc, lw)
         IN  IF it.returns THEN it.value
             ELSE FlwRun(it.game, NextCall(g, c, k), NextCard(g, c, k),
                         it.win_count, it.last_win)

\* What find_last_winner returns on a copy of the game as parsed.
LastOfFresh == FlwRun(parsed.val, 1, 1, 0, None)

\* find_last_winner is running, or has returned, on the game that
\* find_winning_call left.
Reusing == ops = 2 /\ pc = "find_last_winner"
Reused == ops = 2 /\ pc = "ready" /\ result # NoResult

\* The number of cards that are Solved.
SolvedCount(cards) == Cardinality({k \in 1..Len(cards) : cards[k].status.tag = "Solved"})

\* C27: find_last_winner on the game find_winning_call has run on.  A card
\* that is Solved, as the first winner is when the run is entered, is never
\* given a call and never counted (win_count stays behind the number of Solved
\* cards by the cards that were Solved at the entry), and the run does not
\* return before the calls are exhausted.  When find_winning_call found a
\* winner, win_count ends one short of the number of cards that complete, and
\* the run returns what find_last_winner returns on a copy of the game as
\* parsed when the last winner of the copy is another card than the first
\* winner, and None when the first winner is the only card that ever
\* completes.
C27_LastAfterFirst ==
    /\ [][Reusing =>
            /\ \A k \in 1..Len(game.cards) :
                  game.cards[k].status.tag = "Solved" => game'.cards[k] = game.cards[k]
            /\ <<arg, who, prev, ret>>' # <<arg, who, prev, ret>>
                  => prev'.status = Unsolved
            /\ SolvedCount(game'.cards) - win_count' = SolvedCount(game.cards) - win_count
            /\ pc' = "ready" => ci > Len(game.calls)]_vars
    /\ []((Reused /\ Solvers # {}) =>
            /\ ci = Len(game.calls) + 1
            /\ win_count = Cardinality(Solvers) - 1
            /\ win_count < Len(game.cards)
            /\ LastSolver # FirstSolver => result = LastOfFresh
            /\ Solvers = {FirstSolver} => result = None
            /\ \A k \in Solvers : game.cards[k] = WhenSolved(k))

\* Three cards of which two complete: the second run returns the win of the
\* other card, which is what it returns on a copy of the game as parsed.
C27_Witness ==
    /\ Reused
    /\ Len(game.cards) = 3
    /\ Cardinality(Solvers) = 2
    /\ result = LastOfFresh
    /\ result = Some(game.cards[LastSolver].status)
    /\ win_count = 1

====
